---- MODULE Spec2Model ----
(***************************************************************************)
(* Model of config_reader.py: the Config mapping (dotted lookup and typed  *)
(* getters), the parser registry, and CachedConfigReader (per-directory    *)
(* singleton, parser resolution, read/cache/reload), and get_instance      *)
(* called from two threads.                                                *)
(*                                                                         *)
(* Python strings are sequences of one-character strings, so that split,   *)
(* rsplit, lower, startswith and the substring test are computed.          *)
(* Python values are tagged records (PyStr, PyInt, PyDict, ...).            *)
(***************************************************************************)
EXTENDS Integers, Sequences, FiniteSets, TLC

VARIABLES dir_cache, readers, nextId, last, conf, glast, boolean_states,
          threads

vars == <<dir_cache, readers, nextId, last, conf, glast, boolean_states, threads>>

----------------------------------------------------------------------------
(* Bounds *)

\* Config objects constructed by read_config in one behaviour.
MaxObjs == 2

\* get_instance calls one thread makes in one behaviour.
MaxCalls == 2

----------------------------------------------------------------------------
(* String literals *)

S_yaml == <<"y","a","m","l">>
S_ini == <<"i","n","i">>
S_conf == <<"c","o","n","f">>
S_json == <<"j","s","o","n">>
S_xml == <<"x","m","l">>
S_name == <<"_","_","n","a","m","e","_","_">>
S_k == <<"k">>
S_v == <<"v">>
S_s == <<"s">>
S_raise == <<"r","a","i","s","e">>

----------------------------------------------------------------------------
(* Python str methods used by the code *)

RECURSIVE LastIndexOf(_, _, _)
\* largest i <= n with s[i] = c, 0 if none
LastIndexOf(s, c, n) ==
    IF n = 0 THEN 0
    ELSE IF s[n] = c THEN n ELSE LastIndexOf(s, c, n - 1)

\* s.rsplit(c, 1): a list of one or two strings
rsplit1(s, c) ==
    LET i == LastIndexOf(s, c, Len(s))
    IN  IF i = 0 THEN <<s>>
        ELSE <<SubSeq(s, 1, i - 1), SubSeq(s, i + 1, Len(s))>>

RECURSIVE split(_, _)
\* s.split(c): the pieces between occurrences of c (always at least one)
split(s, c) ==
    IF \A i \in 1..Len(s) : s[i] # c THEN <<s>>
    ELSE LET i == CHOOSE j \in 1..Len(s) :
                     s[j] = c /\ \A h \in 1..(j - 1) : s[h] # c
         IN  <<SubSeq(s, 1, i - 1)>> \o split(SubSeq(s, i + 1, Len(s)), c)

LowerChar(c) ==
    CASE c = "Y" -> "y" [] c = "A" -> "a" [] c = "M" -> "m" [] c = "L" -> "l"
      [] c = "I" -> "i" [] c = "N" -> "n" [] c = "C" -> "c" [] c = "O" -> "o"
      [] c = "F" -> "f" [] c = "J" -> "j" [] c = "S" -> "s" [] c = "R" -> "r"
      [] c = "E" -> "e" [] c = "T" -> "t" [] c = "U" -> "u"
      [] OTHER -> c

lower(s) == [i \in 1..Len(s) |-> LowerChar(s[i])]

startswith(s, p) == Len(s) >= Len(p) /\ SubSeq(s, 1, Len(p)) = p

\* k in s, for strings
contains(s, k) ==
    \E i \in 1..(Len(s) - Len(k) + 1) : SubSeq(s, i, i + Len(k) - 1) = k

RECURSIVE JoinWith(_, _)
\* sep.join(parts)
JoinWith(parts, sep) ==
    IF Len(parts) = 0 THEN <<>>
    ELSE IF Len(parts) = 1 THEN parts[1]
    ELSE parts[1] \o sep \o JoinWith(Tail(parts), sep)

IsDigit(c) == c \in {"0", "1", "2", "3", "4", "5", "6", "7", "8", "9"}

DigitVal(c) ==
    CASE c = "0" -> 0 [] c = "1" -> 1 [] c = "2" -> 2 [] c = "3" -> 3
      [] c = "4" -> 4 [] c = "5" -> 5 [] c = "6" -> 6 [] c = "7" -> 7
      [] c = "8" -> 8 [] c = "9" -> 9

RECURSIVE strip(_)
\* s.strip(), as int() and float() strip their argument
strip(s) ==
    IF Len(s) > 0 /\ s[1] = " " THEN strip(Tail(s))
    ELSE IF Len(s) > 0 /\ s[Len(s)] = " " THEN strip(SubSeq(s, 1, Len(s) - 1))
    ELSE s

RECURSIVE DigitsVal(_, _)
\* the number a run of digits writes, after acc
DigitsVal(s, acc) ==
    IF Len(s) = 0 THEN acc ELSE DigitsVal(Tail(s), 10 * acc + DigitVal(s[1]))

\* a sign followed by the rest
Unsigned(s) == IF Len(s) > 0 /\ s[1] \in {"+", "-"} THEN Tail(s) ELSE s
SignOf(s) == IF Len(s) > 0 /\ s[1] = "-" THEN -1 ELSE 1

AllDigits(s) == Len(s) > 0 /\ \A i \in 1..Len(s) : IsDigit(s[i])

----------------------------------------------------------------------------
(* os.path *)

\* the process's working directory
Cwd == <<"/">>

\* os.path.join(a, b)
path_join(a, b) ==
    IF startswith(b, <<"/">>) THEN b
    ELSE IF a = <<>> \/ a[Len(a)] = "/" THEN a \o b
    ELSE a \o <<"/">> \o b

RECURSIVE NormComps(_, _, _)
\* the loop of os.path.normpath over the components
NormComps(comps, acc, rooted) ==
    IF Len(comps) = 0 THEN acc
    ELSE LET c == Head(comps)
             rest == Tail(comps)
         IN  IF c = <<>> \/ c = <<".">> THEN NormComps(rest, acc, rooted)
             ELSE IF c # <<".", ".">>
                       \/ (~rooted /\ Len(acc) = 0)
                       \/ (Len(acc) > 0 /\ acc[Len(acc)] = <<".", ".">>)
                  THEN NormComps(rest, Append(acc, c), rooted)
             ELSE IF Len(acc) > 0
                  THEN NormComps(rest, SubSeq(acc, 1, Len(acc) - 1), rooted)
             ELSE NormComps(rest, acc, rooted)

\* os.path.normpath(p)
normpath(p) ==
    IF p = <<>> THEN <<".">>
    ELSE LET rooted == startswith(p, <<"/">>)
             body == JoinWith(NormComps(split(p, "/"), <<>>, rooted), <<"/">>)
             r == IF rooted THEN <<"/">> \o body ELSE body
         IN  IF r = <<>> THEN <<".">> ELSE r

\* os.path.abspath(p)
abspath(p) ==
    normpath(IF startswith(p, <<"/">>) THEN p ELSE path_join(Cwd, p))

----------------------------------------------------------------------------
(* Python values *)

PyStr(s) == [t |-> "str", s |-> s]
PyInt(i) == [t |-> "int", i |-> i]
PyBool(b) == [t |-> "bool", b |-> b]
PyNone == [t |-> "none"]
PyList(q) == [t |-> "list", q |-> q]
PyDict(m) == [t |-> "dict", m |-> m]
\* a float, held in tenths
PyFloat(x) == [t |-> "float", x10 |-> x]

\* the empty dict's items
Empty == <<>>

\* dict(d) with key k removed
DictDel(m, k) == [x \in (DOMAIN m) \ {k} |-> m[x]]

\* dict(d) with d[k] = v
DictSet(m, k, v) == [x \in (DOMAIN m) \cup {k} |-> IF x = k THEN v ELSE m[x]]

\* outcome of a call: the exception raised ("" for none) with its argument,
\* the value returned, and the number of open() calls it made
Ok(v, n) == [exc |-> "", arg |-> <<>>, val |-> v, opened |-> n]
Raise(e, a, n) == [exc |-> e, arg |-> a, val |-> PyNone, opened |-> n]

----------------------------------------------------------------------------
(* Files, as the parsers and the first-line scan see them: whether open()    *)
(* succeeds, the first line, and what each format library makes of the text  *)

LibOk(v) == [ok |-> TRUE, v |-> v]
LibErr == [ok |-> FALSE, v |-> PyNone]

File(e, l, y, i) == [exists |-> e, first_line |-> l, yaml |-> y, ini |-> i]

\* documents
YamlDoc == PyDict(S_k :> PyStr(S_v))
IniSections == PyDict(S_s :> PyDict((S_name :> PyStr(S_s)) @@ (S_k :> PyStr(S_v))))

Missing == File(FALSE, <<>>, LibErr, LibErr)
\* "#YAML" then a YAML mapping
FileYamlTagged == File(TRUE, <<"#","Y","A","M","L">>, LibOk(YamlDoc), LibErr)
\* "#reconf json" then INI sections: two identifiers on the line, one of
\* them inside a word
FileTwoIds ==
    File(TRUE, <<"#","r","e","c","o","n","f"," ","j","s","o","n">>, LibErr,
         LibOk(IniSections))
\* "k: v", a YAML mapping with no comment line
FileYamlPlain == File(TRUE, <<"k",":"," ","v">>, LibOk(YamlDoc), LibErr)
\* "[ini]" then options: an identifier on a first line that is no comment
FileIniPlain == File(TRUE, <<"[","i","n","i","]">>, LibErr, LibOk(IniSections))
\* "# x" then text no library accepts: a comment naming no format
FileGarbage == File(TRUE, <<"#"," ","x">>, LibErr, LibErr)

\* '{"k": "v"}': a JSON object, which the YAML library reads as a mapping too
FileJson ==
    File(TRUE, <<"{","\"","k","\"",":"," ","\"","v","\"","}">>, LibOk(YamlDoc),
         LibErr)

Files == {Missing, FileYamlTagged, FileTwoIds, FileYamlPlain, FileIniPlain,
          FileGarbage, FileJson}

----------------------------------------------------------------------------
(* Format parsers and the registry *)

\* Config(x): dict(x)
Config(v, n) ==
    IF v.t = "dict" THEN Ok(v, n) ELSE Raise("TypeError", <<>>, n)

yaml_parser(file) ==
    IF ~file.exists THEN Raise("IOError", <<>>, 1)
    ELSE IF ~file.yaml.ok THEN Raise("YAMLError", <<>>, 1)
    ELSE Config(file.yaml.v, 1)

\* for s in cp._sections.itervalues(): del s['__name__']
StripName(sections) ==
    PyDict([s \in DOMAIN sections.m |-> PyDict(DictDel(sections.m[s].m, S_name))])

ini_parser(file) ==
    IF ~file.exists THEN Raise("IOError", <<>>, 1)
    ELSE IF ~file.ini.ok THEN Raise("ConfigParser.Error", <<>>, 1)
    ELSE Config(StripName(file.ini.v), 1)

\* the json module's decoder, for documents whose strings hold no ',', ':',
\* '"' or escape, and whose arrays and objects hold scalars only
JsonOk(v) == [ok |-> TRUE, v |-> v]
JsonErr == [ok |-> FALSE, v |-> PyNone]

\* a JSON number without fraction or exponent
IsJsonInt(t) ==
    LET u == IF Len(t) > 0 /\ t[1] = "-" THEN Tail(t) ELSE t
    IN  AllDigits(u) /\ (Len(u) = 1 \/ u[1] # "0")

\* a string, a number or a literal name, spaces around it skipped
JsonScalar(s) ==
    LET t == strip(s)
    IN  IF /\ Len(t) >= 2 /\ t[1] = "\"" /\ t[Len(t)] = "\""
           /\ \A i \in 2..(Len(t) - 1) : t[i] # "\""
        THEN JsonOk(PyStr(SubSeq(t, 2, Len(t) - 1)))
        ELSE IF IsJsonInt(t)
             THEN JsonOk(PyInt(SignOf(t) * DigitsVal(Unsigned(t), 0)))
        ELSE IF t = <<"t","r","u","e">> THEN JsonOk(PyBool(TRUE))
        ELSE IF t = <<"f","a","l","s","e">> THEN JsonOk(PyBool(FALSE))
        ELSE IF t = <<"n","u","l","l">> THEN JsonOk(PyNone)
        ELSE JsonErr

\* '[' elements ']'
JsonArray(inner) ==
    LET parts == split(inner, ",")
        items == [i \in 1..Len(parts) |-> JsonScalar(parts[i])]
    IN  IF strip(inner) = <<>> THEN JsonOk(PyList(<<>>))
        ELSE IF \E i \in 1..Len(items) : ~items[i].ok THEN JsonErr
        ELSE JsonOk(PyList([i \in 1..Len(items) |-> items[i].v]))

\* '{' "name" ':' value ... '}'
JsonObject(inner) ==
    LET parts == split(inner, ",")
        pairs == [i \in 1..Len(parts) |-> split(parts[i], ":")]
        WellFormed(i) ==
            /\ Len(pairs[i]) = 2
            /\ JsonScalar(pairs[i][1]).ok
            /\ JsonScalar(pairs[i][1]).v.t = "str"
            /\ JsonScalar(pairs[i][2]).ok
        names == {JsonScalar(pairs[i][1]).v.s : i \in 1..Len(parts)}
        \* a name written twice keeps its last value
        At(n) == CHOOSE i \in 1..Len(parts) :
                    /\ JsonScalar(pairs[i][1]).v.s = n
                    /\ \A j \in (i + 1)..Len(parts) : JsonScalar(pairs[j][1]).v.s # n
    IN  IF strip(inner) = <<>> THEN JsonOk(PyDict(Empty))
        ELSE IF \E i \in 1..Len(parts) : ~WellFormed(i) THEN JsonErr
        ELSE JsonOk(PyDict([n \in names |-> JsonScalar(pairs[At(n)][2]).v]))

JsonDecode(s) ==
    LET t == strip(s)
    IN  IF Len(t) >= 2 /\ t[1] = "[" /\ t[Len(t)] = "]"
        THEN JsonArray(SubSeq(t, 2, Len(t) - 1))
        ELSE IF Len(t) >= 2 /\ t[1] = "{" /\ t[Len(t)] = "}"
             THEN JsonObject(SubSeq(t, 2, Len(t) - 1))
        ELSE JsonScalar(t)

\* json.loads(x): x must be a string (the parser passes the open file
\* object); text that is no JSON document raises ValueError
json_loads(x) ==
    IF x.t # "str" THEN Raise("TypeError", <<>>, 0)
    ELSE IF JsonDecode(x.s).ok THEN Ok(JsonDecode(x.s).v, 0)
    ELSE Raise("ValueError", x.s, 0)

json_parser(file) ==
    IF ~file.exists THEN Raise("IOError", <<>>, 1)
    ELSE LET r == json_loads([t |-> "file"])
         IN  IF r.exc # "" THEN Raise(r.exc, r.arg, 1) ELSE Config(r.val, 1)

\* CachedConfigReader.default_parser looked up through an instance that has
\* no attribute of its own: the class attribute is a function, so the lookup
\* binds it to the instance
BoundYaml == "yaml_parser bound to reader"

ParserFns == {"yaml_parser", "ini_parser", "json_parser"}

parsers_dict ==
    (S_yaml :> "yaml_parser") @@ (S_ini :> "ini_parser")
      @@ (S_conf :> "ini_parser") @@ (S_json :> "json_parser")

parsers_set == {"yaml_parser", "ini_parser", "json_parser"}

\* parser(path): the call made at read_config's parser(path)
CallParser(fn, file) ==
    CASE fn = "yaml_parser" -> yaml_parser(file)
      [] fn = "ini_parser" -> ini_parser(file)
      [] fn = "json_parser" -> json_parser(file)
      [] OTHER -> Raise("TypeError", <<>>, 0)

----------------------------------------------------------------------------
(* Arguments of the reader's operations *)

\* a parser argument: None, a string, or a function object
PNone == [k |-> "none", s |-> <<>>, f |-> ""]
PName(s) == [k |-> "name", s |-> s, f |-> ""]
PFn(f) == [k |-> "fn", s |-> <<>>, f |-> f]

\* a default argument: the string 'raise' or a dict
DRaise == [k |-> "raise", m |-> PyDict(Empty)]
DMap(m) == [k |-> "map", m |-> PyDict(m)]

\* a config argument of reload: None or a name
NNone == [k |-> "none", s |-> <<>>]
NName(s) == [k |-> "name", s |-> s]

DirArgs ==
    { <<"/","d",".","i","n","i">>,
      <<"/","d",".","i","n","i","/">>,
      <<"e">>,
      <<"/","x","/",".",".","/","e">> }

Names == { <<"a">>, <<"a",".","j","s","o","n">> }

InstanceParserArgs == {PNone, PName(S_ini), PName(S_xml)}

ReadParserArgs ==
    {PNone, PName(S_yaml), PFn("ini_parser"), PName(S_xml), PName(S_json)}

DefaultArgs == {DRaise, DMap(Empty), DMap(S_k :> PyInt(1))}

ReloadArgs == {NNone} \cup {NName(n) : n \in Names}

----------------------------------------------------------------------------
(* CachedConfigReader *)

\* a Config object held by a cache: its identity and its items
Obj(i, v) == [id |-> i, val |-> v]
NoObj == Obj(0, PyNone)

\* mutant: the parser given at creation is dropped
Reader_ClassDefault(d, p) ==
    [config_dir |-> d, default_parser |-> BoundYaml, cache |-> Empty]

\* CachedConfigReader(config_dir, parser), p being self.get_parser(parser)
Reader(d, p) == [config_dir |-> d, default_parser |-> p, cache |-> Empty]

\* mutant: the parser argument is ignored
ParserGiven_Never(parser) == FALSE

\* truth value of a parser argument in 'if parser:'
ParserGiven(parser) ==
    parser.k = "fn" \/ (parser.k = "name" /\ parser.s # <<>>)

\* truth value of reload's argument in 'if config:'
ConfigGiven(config) == config.k = "name" /\ config.s # <<>>

Resolved(fn, n) == [exc |-> "", arg |-> <<>>, fn |-> fn, opened |-> n]
Unresolved(e, a, n) == [exc |-> e, arg |-> a, fn |-> "", opened |-> n]

\* self.get_parser(parser), self.default_parser being self_default
get_parser(self_default, parser) ==
    IF parser.k = "none" THEN Resolved(self_default, 0)
    ELSE IF parser.k = "fn" /\ parser.f \in parsers_set THEN Resolved(parser.f, 0)
    ELSE IF parser.k = "name" /\ parser.s \in DOMAIN parsers_dict
         THEN Resolved(parsers_dict[parser.s], 0)
    ELSE Unresolved("KeyError", parser.s, 0)

\* parsers_dict[path.rsplit('.', 1)[1]]: the set is empty on KeyError or
\* IndexError
ParserFromExtension(path) ==
    LET parts == rsplit1(path, ".")
    IN  IF Len(parts) >= 2 /\ parts[2] \in DOMAIN parsers_dict
        THEN {parsers_dict[parts[2]]}
        ELSE {}

\* the parsers the scan of the first line may select: the loop takes the
\* first key, in the dict's iteration order, that occurs in the line
ParsersFromFirstLine(line) ==
    LET first_line == lower(line)
    IN  IF startswith(first_line, <<"#">>)
        THEN {parsers_dict[k] : k \in {x \in DOMAIN parsers_dict : contains(first_line, x)}}
        ELSE {}

\* self.get_parser_from_file(path): the possible results
get_parser_from_file(self_default, path, file) ==
    IF ParserFromExtension(path) # {}
    THEN {Resolved(fn, 0) : fn \in ParserFromExtension(path)}
    ELSE IF ~file.exists THEN {Unresolved("IOError", <<>>, 1)}
    ELSE IF ParsersFromFirstLine(file.first_line) # {}
         THEN {Resolved(fn, 1) : fn \in ParsersFromFirstLine(file.first_line)}
    ELSE {Resolved(self_default, 1)}

\* the 'if parser: ... else: ...' of read_config
ResolveParser(r, path, parser, file) ==
    IF ParserGiven(parser) THEN {get_parser(r.default_parser, parser)}
    ELSE get_parser_from_file(r.default_parser, path, file)

Outcome(e, a, v, inv, n) ==
    [exc |-> e, arg |-> a, val |-> v, invoked |-> inv, opened |-> n]

\* the body of read_config's try, for one resolution
TryParse(res, file) ==
    IF res.exc # "" THEN Outcome(res.exc, res.arg, PyNone, <<>>, res.opened)
    ELSE LET c == CallParser(res.fn, file)
         IN  Outcome(c.exc, c.arg, c.val, <<res.fn>>, res.opened + c.opened)

\* mutant: a missing file never raises
OnIOError_NeverRaise(o, path, default) ==
    IF o.exc # "IOError" THEN o
    ELSE [o EXCEPT !.exc = "", !.arg = <<>>, !.val = default.m]

\* mutant: a missing file yields an empty Config whatever the default
OnIOError_EmptyDefault(o, path, default) ==
    IF o.exc # "IOError" THEN o
    ELSE IF default.k = "raise"
         THEN [o EXCEPT !.exc = "ConfigurationError", !.arg = path]
    ELSE [o EXCEPT !.exc = "", !.arg = <<>>, !.val = PyDict(Empty)]

\* mutant: a parser's own error is handled as a missing file is
OnIOError_ParserErrorToo(o, path, default) ==
    IF o.exc \in {"", "KeyError"} THEN o
    ELSE IF default.k = "raise"
         THEN [o EXCEPT !.exc = "ConfigurationError", !.arg = path]
    ELSE [o EXCEPT !.exc = "", !.arg = <<>>, !.val = default.m]

\* mutant: an unknown parser name is handled as a missing file is
OnIOError_KeyErrorToo(o, path, default) ==
    IF o.exc \notin {"IOError", "KeyError"} THEN o
    ELSE IF default.k = "raise"
         THEN [o EXCEPT !.exc = "ConfigurationError", !.arg = path]
    ELSE [o EXCEPT !.exc = "", !.arg = <<>>, !.val = default.m]

\* read_config's 'except IOError'
OnIOError(o, path, default) ==
    IF o.exc # "IOError" THEN o
    ELSE IF default.k = "raise"
         THEN [o EXCEPT !.exc = "ConfigurationError", !.arg = path]
    ELSE [o EXCEPT !.exc = "", !.arg = <<>>, !.val = default.m]

\* what a read_config call that finds no cache entry may do
ReadMiss(r, config, parser, default, file) ==
    LET path == path_join(r.config_dir, config)
    IN  {OnIOError(TryParse(res, file), path, default) :
            res \in ResolveParser(r, path, parser, file)}

\* mutant: the cache is never consulted
NotCached_Always(cache, config) == TRUE

\* 'config not in self.cache'
NotCached(cache, config) == config \notin DOMAIN cache

----------------------------------------------------------------------------
(* The record of the last call: its arguments, what it returned or raised,   *)
(* the parsers it called and the number of files it opened                   *)

Call(op, dir, reader, config, parser, default, file, ret, exc, arg, invoked, opened) ==
    [op |-> op, dir |-> dir, reader |-> reader, config |-> config,
     parser |-> parser, default |-> default, file |-> file, ret |-> ret,
     exc |-> exc, arg |-> arg, invoked |-> invoked, opened |-> opened]

NoCall ==
    Call("none", <<>>, 0, NNone, PNone, DRaise, Missing, NoObj, "", <<>>, <<>>, 0)

\* Config._boolean_states as the class is defined
BooleanStates ==
    (<<"y","e","s">> :> TRUE) @@ (<<"t","r","u","e">> :> TRUE) @@ (<<"o","n">> :> TRUE)
      @@ (<<"n","o">> :> FALSE) @@ (<<"f","a","l","s","e">> :> FALSE)
      @@ (<<"o","f","f">> :> FALSE)

\* the threads that call get_instance concurrently
Threads == {1, 2}

\* a thread's position in get_instance: the argument it was called with, the
\* path it computed, and what it returned or raised
Thread(pc, dir, parser, path, ret, exc, arg, n) ==
    [pc |-> pc, dir |-> dir, parser |-> parser, path |-> path, ret |-> ret,
     exc |-> exc, arg |-> arg, n |-> n]

NoThreads == [t \in Threads |-> Thread("idle", <<>>, PNone, <<>>, 0, "", <<>>, 0)]

\* the typed getters' state while the reader runs
NoConf == PyDict(Empty)
NoGet ==
    [op |-> "none", key |-> <<>>, d |-> PyNone, exc |-> "", arg |-> <<>>,
     val |-> PyNone]

Init ==
    /\ dir_cache = Empty
    /\ readers = <<>>
    /\ nextId = 0
    /\ last = NoCall
    /\ conf = NoConf
    /\ glast = NoGet
    /\ boolean_states = BooleanStates
    /\ threads = NoThreads

\* mutant: the membership test always succeeds, so every call makes a reader
NotRegistered_Always(path) == TRUE

\* 'path not in cls.dir_cache'
NotRegistered(path) == path \notin DOMAIN dir_cache

\* CachedConfigReader.get_instance(config_dir, parser)
get_instance(config_dir, parser) ==
    LET path == abspath(config_dir)
    IN  IF NotRegistered(path)
        THEN LET p == get_parser(BoundYaml, parser)
                 rid == Len(readers) + 1
             IN  IF p.exc # ""
                 THEN /\ last' = Call("get_instance", config_dir, 0, NNone, parser,
                                      DRaise, Missing, NoObj, p.exc, p.arg, <<>>, 0)
                      /\ UNCHANGED <<dir_cache, readers, nextId, conf, glast,
                                  boolean_states, threads>>
                 ELSE /\ readers' = Append(readers, Reader(path, p.fn))
                      /\ dir_cache' = DictSet(dir_cache, path, rid)
                      /\ last' = Call("get_instance", config_dir, rid, NNone, parser,
                                      DRaise, Missing, NoObj, "", <<>>, <<>>, 0)
                      /\ UNCHANGED <<nextId, conf, glast,
                                  boolean_states, threads>>
        ELSE /\ last' = Call("get_instance", config_dir, dir_cache[path], NNone,
                             parser, DRaise, Missing, NoObj, "", <<>>, <<>>, 0)
             /\ UNCHANGED <<dir_cache, readers, nextId, conf, glast,
                                  boolean_states, threads>>

\* reader.read_config(config, parser, default), the file at the joined path
\* being in state file
read_config(rid, config, parser, default, file) ==
    LET r == readers[rid]
    IN  IF NotCached(r.cache, config)
        THEN \E o \in ReadMiss(r, config, parser, default, file) :
               IF o.exc # ""
               THEN /\ last' = Call("read_config", <<>>, rid, NName(config), parser,
                                    default, file, NoObj, o.exc, o.arg, o.invoked,
                                    o.opened)
                    /\ UNCHANGED <<dir_cache, readers, nextId, conf, glast,
                                  boolean_states, threads>>
               ELSE /\ nextId < MaxObjs
                    /\ nextId' = nextId + 1
                    /\ readers' = [readers EXCEPT ![rid].cache =
                                       DictSet(@, config, Obj(nextId + 1, o.val))]
                    /\ last' = Call("read_config", <<>>, rid, NName(config), parser,
                                    default, file, Obj(nextId + 1, o.val), "", <<>>,
                                    o.invoked, o.opened)
                    /\ UNCHANGED <<dir_cache, conf, glast,
                                  boolean_states, threads>>
        ELSE /\ last' = Call("read_config", <<>>, rid, NName(config), parser,
                             default, file, r.cache[config], "", <<>>, <<>>, 0)
             /\ UNCHANGED <<dir_cache, readers, nextId, conf, glast,
                                  boolean_states, threads>>

\* mutant: evicting one name evicts them all
CacheDel_All(cache, config) == Empty

\* mutant: the entry stays
CacheDel_Keep(cache, config) == cache

\* 'del self.cache[config]', config being a key
CacheDel(cache, config) == DictDel(cache, config)

\* reader.reload(config)
reload(rid, config) ==
    LET r == readers[rid]
    IN  IF ConfigGiven(config)
        THEN IF config.s \in DOMAIN r.cache
             THEN /\ readers' = [readers EXCEPT ![rid].cache = CacheDel(@, config.s)]
                  /\ last' = Call("reload", <<>>, rid, config, PNone, DRaise,
                                  Missing, NoObj, "", <<>>, <<>>, 0)
                  /\ UNCHANGED <<dir_cache, nextId, conf, glast,
                                  boolean_states, threads>>
             ELSE /\ last' = Call("reload", <<>>, rid, config, PNone, DRaise,
                                  Missing, NoObj, "KeyError", config.s, <<>>, 0)
                  /\ UNCHANGED <<dir_cache, readers, nextId, conf, glast,
                                  boolean_states, threads>>
        ELSE /\ readers' = [readers EXCEPT ![rid].cache = Empty]
             /\ last' = Call("reload", <<>>, rid, config, PNone, DRaise, Missing,
                             NoObj, "", <<>>, <<>>, 0)
             /\ UNCHANGED <<dir_cache, nextId, conf, glast,
                                  boolean_states, threads>>

\* The caller makes one call at a time: a call leaves its result in last,
\* and the caller takes it (Return) before it makes the next call.
GetInstance ==
    /\ last = NoCall
    /\ \E d \in DirArgs, p \in InstanceParserArgs : get_instance(d, p)

ReadConfig ==
    /\ last = NoCall
    /\ \E rid \in 1..Len(readers), n \in Names, p \in ReadParserArgs,
          d \in DefaultArgs, f \in Files :
           read_config(rid, n, p, d, f)

Reload ==
    /\ last = NoCall
    /\ \E rid \in 1..Len(readers), c \in ReloadArgs : reload(rid, c)

Return ==
    /\ last # NoCall
    /\ last' = NoCall
    /\ UNCHANGED <<dir_cache, readers, nextId, conf, glast,
                                  boolean_states, threads>>

Next == GetInstance \/ ReadConfig \/ Reload \/ Return

Spec == Init /\ [][Next]_vars

----------------------------------------------------------------------------
(* get_instance called from two threads: the interpreter may switch threads  *)
(* between the membership test, the store and the final lookup               *)

\* a thread enters get_instance: path = os.path.abspath(config_dir)
Enter(t) ==
    /\ threads[t].pc = "idle"
    /\ threads[t].n < MaxCalls
    /\ \E d \in DirArgs, p \in InstanceParserArgs :
          threads' = [threads EXCEPT ![t] =
                         Thread("test", d, p, abspath(d), 0, "", <<>>, @.n + 1)]
    /\ UNCHANGED <<dir_cache, readers, nextId, last, conf, glast, boolean_states>>

\* 'if path not in cls.dir_cache:'
Test(t) ==
    /\ threads[t].pc = "test"
    /\ threads' = [threads EXCEPT ![t].pc =
                      IF NotRegistered(threads[t].path) THEN "store" ELSE "fetch"]
    /\ UNCHANGED <<dir_cache, readers, nextId, last, conf, glast, boolean_states>>

\* 'cls.dir_cache[path] = CachedConfigReader(path, parser)'
Store(t) ==
    /\ threads[t].pc = "store"
    /\ LET p == get_parser(BoundYaml, threads[t].parser)
           rid == Len(readers) + 1
       IN  IF p.exc # ""
           THEN /\ threads' = [threads EXCEPT ![t].pc = "done", ![t].exc = p.exc,
                                              ![t].arg = p.arg]
                /\ UNCHANGED <<dir_cache, readers>>
           ELSE /\ readers' = Append(readers, Reader(threads[t].path, p.fn))
                /\ dir_cache' = DictSet(dir_cache, threads[t].path, rid)
                /\ threads' = [threads EXCEPT ![t].pc = "fetch"]
    /\ UNCHANGED <<nextId, last, conf, glast, boolean_states>>

\* 'return cls.dir_cache[path]'
Fetch(t) ==
    /\ threads[t].pc = "fetch"
    /\ threads' = [threads EXCEPT ![t].pc = "done",
                                  ![t].ret = dir_cache[threads[t].path]]
    /\ UNCHANGED <<dir_cache, readers, nextId, last, conf, glast, boolean_states>>

\* the caller takes the result; the thread may call again
Leave(t) ==
    /\ threads[t].pc = "done"
    /\ threads' = [threads EXCEPT ![t].pc = "idle"]
    /\ UNCHANGED <<dir_cache, readers, nextId, last, conf, glast, boolean_states>>

NextThreads ==
    \E t \in Threads : Enter(t) \/ Test(t) \/ Store(t) \/ Fetch(t) \/ Leave(t)

SpecThreads == Init /\ [][NextThreads]_vars

----------------------------------------------------------------------------
(* Config: dotted lookup and the numeric getters *)

RECURSIVE Descend(_, _)
\* the loop of __getitem__: r = dict.__getitem__(r, k) for each k
Descend(r, ks) ==
    IF Len(ks) = 0 THEN Ok(r, 0)
    ELSE IF r.t # "dict" THEN Raise("TypeError", <<>>, 0)
    ELSE IF Head(ks) \notin DOMAIN r.m THEN Raise("KeyError", Head(ks), 0)
    ELSE Descend(r.m[Head(ks)], Tail(ks))

\* Config.__getitem__(self, key)
getitem(self, key) == Descend(self, split(key, "."))

\* Config.get(self, k, d)
get(self, k, d) ==
    LET r == getitem(self, k)
    IN  IF r.exc = "KeyError" THEN Ok(d, 0) ELSE r

\* s is an integer literal: spaces, a sign, digits
IsIntLiteral(s) == AllDigits(Unsigned(strip(s)))

\* s is a float literal: spaces, a sign, digits, and a '.' with digits after
\* it or none (exponents, inf and nan are not modelled)
IsFloatLiteral(s) ==
    LET u == Unsigned(strip(s))
        parts == split(u, ".")
    IN  /\ Len(parts) <= 2
        /\ AllDigits(parts[1])
        /\ Len(parts) = 2 => (parts[2] = <<>> \/ AllDigits(parts[2]))

\* the literal's value in tenths, digits after the first decimal dropped
FloatLiteralTenths(s) ==
    LET u == Unsigned(strip(s))
        parts == split(u, ".")
        frac == IF Len(parts) = 2 /\ Len(parts[2]) > 0 THEN DigitVal(parts[2][1]) ELSE 0
    IN  SignOf(strip(s)) * (10 * DigitsVal(parts[1], 0) + frac)

\* x truncated towards zero to a whole number of tens, in units
TruncTenths(x) == IF x >= 0 THEN x \div 10 ELSE -((-x) \div 10)

\* int(v)
py_int(v) ==
    CASE v.t = "int" -> Ok(v, 0)
      [] v.t = "bool" -> Ok(PyInt(IF v.b THEN 1 ELSE 0), 0)
      [] v.t = "float" -> Ok(PyInt(TruncTenths(v.x10)), 0)
      [] v.t = "str" ->
            IF IsIntLiteral(v.s)
            THEN Ok(PyInt(SignOf(strip(v.s)) * DigitsVal(Unsigned(strip(v.s)), 0)), 0)
            ELSE Raise("ValueError", v.s, 0)
      [] OTHER -> Raise("TypeError", <<>>, 0)

\* float(v)
py_float(v) ==
    CASE v.t = "float" -> Ok(v, 0)
      [] v.t = "int" -> Ok(PyFloat(10 * v.i), 0)
      [] v.t = "bool" -> Ok(PyFloat(IF v.b THEN 10 ELSE 0), 0)
      [] v.t = "str" ->
            IF IsFloatLiteral(v.s) THEN Ok(PyFloat(FloatLiteralTenths(v.s)), 0)
            ELSE Raise("ValueError", v.s, 0)
      [] OTHER -> Raise("TypeError", <<>>, 0)

\* the 'except TypeError' of get_int and get_float
OnTypeError(k, d) ==
    IF d = PyStr(S_raise) THEN Raise("ValueError", k, 0) ELSE Ok(d, 0)

\* Config.get_int(self, k, d)
get_int(self, k, d) ==
    LET g == get(self, k, d)
    IN  IF g.exc = "TypeError" THEN OnTypeError(k, d)
        ELSE IF g.exc # "" THEN g
        ELSE IF py_int(g.val).exc = "TypeError" THEN OnTypeError(k, d)
        ELSE py_int(g.val)

\* Config.get_float(self, k, d)
get_float(self, k, d) ==
    LET g == get(self, k, d)
    IN  IF g.exc = "TypeError" THEN OnTypeError(k, d)
        ELSE IF g.exc # "" THEN g
        ELSE IF py_float(g.val).exc = "TypeError" THEN OnTypeError(k, d)
        ELSE py_float(g.val)

\* Config.add_bool_literals(true, false): the table after the two stores
add_bool_literals(table, true, false) ==
    DictSet(DictSet(table, true, TRUE), false, FALSE)

\* mutant: an unmatched value never raises
OnNoLiteral_NeverRaise(k, d) == Ok(d, 0)

\* the 'except (KeyError, AttributeError)' of get_boolean
OnNoLiteral(k, d) ==
    IF d = PyStr(S_raise) THEN Raise("ValueError", k, 0) ELSE Ok(d, 0)

\* Config.get_boolean(self, k, d), _boolean_states being table
get_boolean(self, k, d, table) ==
    LET g == get(self, k, d)
    IN  IF g.exc # "" THEN g
        ELSE IF g.val.t = "bool" THEN g
        ELSE IF g.val.t # "str" THEN OnNoLiteral(k, d)
        ELSE IF lower(g.val.s) \notin DOMAIN table THEN OnNoLiteral(k, d)
        ELSE Ok(PyBool(table[lower(g.val.s)]), 0)

\* get_bool = get_boolean
get_bool(self, k, d, table) == get_boolean(self, k, d, table)

\* Config.get_json(self, k, d)
get_json(self, k, d) ==
    LET g == get(self, k, d)
    IN  IF g.exc # "" THEN g
        ELSE IF json_loads(g.val).exc = "ValueError" THEN json_loads(d)
        ELSE json_loads(g.val)

----------------------------------------------------------------------------
(* The getters applied to a Config: the mappings, keys and defaults tried *)

\* {'a': {'b': {'c': 5}}}
ConfNested == PyDict(<<"a">> :> PyDict(<<"b">> :> PyDict(<<"c">> :> PyInt(5))))

\* {'n': ' 12', 'f': '1.5', 'w': 'abc', 'i': -7, 'r': 2.5, 't': True}
ConfLeaves ==
    PyDict((<<"n">> :> PyStr(<<" ", "1", "2">>)) @@ (<<"f">> :> PyStr(<<"1", ".", "5">>))
           @@ (<<"w">> :> PyStr(<<"a", "b", "c">>)) @@ (<<"i">> :> PyInt(-7))
           @@ (<<"r">> :> PyFloat(25)) @@ (<<"t">> :> PyBool(TRUE)))

\* {'l': [1, 2], 'm': {'x': 1}, 'z': None, 'w': 'abc'}
ConfShapes ==
    PyDict((<<"l">> :> PyList(<<PyInt(1), PyInt(2)>>))
           @@ (<<"m">> :> PyDict(<<"x">> :> PyInt(1)))
           @@ (<<"z">> :> PyNone) @@ (<<"w">> :> PyStr(<<"a", "b", "c">>)))

\* {'flag': 'Yes', 'w': 'maybe', 'n': 'oui', 'i': 'NON', 't': False,
\*  'list': '["x","y"]', 'z': '[x'}
ConfFlags ==
    PyDict((<<"f","l","a","g">> :> PyStr(<<"Y","e","s">>))
           @@ (<<"w">> :> PyStr(<<"m","a","y","b","e">>))
           @@ (<<"n">> :> PyStr(<<"o","u","i">>))
           @@ (<<"i">> :> PyStr(<<"N","O","N">>))
           @@ (<<"t">> :> PyBool(FALSE))
           @@ (<<"l","i","s","t">> :> PyStr(<<"[","\"","x","\"",",","\"","y","\"","]">>))
           @@ (<<"z">> :> PyStr(<<"[","x">>)))

Confs == {ConfNested, ConfLeaves, ConfShapes, ConfFlags}

Keys ==
    { <<"a",".","b",".","c">>, <<"a",".","b",".","x">>,
      <<"a",".","b",".","c",".","d">>, <<"a",".","b">>,
      <<"n">>, <<"f">>, <<"w">>, <<"i">>, <<"r">>, <<"t">>,
      <<"l">>, <<"m">>, <<"z">>, <<"m",".","x">>, <<"l",".","x">>,
      <<"w",".","x">>, <<"f","l","a","g">>, <<"l","i","s","t">> }

Defaults ==
    {PyInt(0), PyInt(9), PyStr(S_raise), PyStr(<<"4", "2">>), PyNone,
     PyBool(FALSE), PyStr(<<"[", "]">>)}

\* the (true, false) tokens given to add_bool_literals
BoolLiterals ==
    { <<<<"o","u","i">>, <<"n","o","n">>>>, <<<<"O","u","i">>, <<"N","o","n">>>> }

GetCall(op, key, d, o) ==
    [op |-> op, key |-> key, d |-> d, exc |-> o.exc, arg |-> o.arg, val |-> o.val]

InitGet ==
    /\ dir_cache = Empty
    /\ readers = <<>>
    /\ nextId = 0
    /\ last = NoCall
    /\ conf \in Confs
    /\ glast = NoGet
    /\ boolean_states = BooleanStates
    /\ threads = NoThreads

Get ==
    \E k \in Keys, d \in Defaults :
        /\ glast' = GetCall("get", k, d, get(conf, k, d))
        /\ UNCHANGED <<dir_cache, readers, nextId, last, conf, boolean_states,
                     threads>>

GetInt ==
    \E k \in Keys, d \in Defaults :
        /\ glast' = GetCall("get_int", k, d, get_int(conf, k, d))
        /\ UNCHANGED <<dir_cache, readers, nextId, last, conf, boolean_states,
                     threads>>

GetFloat ==
    \E k \in Keys, d \in Defaults :
        /\ glast' = GetCall("get_float", k, d, get_float(conf, k, d))
        /\ UNCHANGED <<dir_cache, readers, nextId, last, conf, boolean_states,
                     threads>>

GetBoolean ==
    \E k \in Keys, d \in Defaults :
        /\ \/ glast' = GetCall("get_boolean", k, d, get_boolean(conf, k, d, boolean_states))
           \/ glast' = GetCall("get_bool", k, d, get_bool(conf, k, d, boolean_states))
        /\ UNCHANGED <<dir_cache, readers, nextId, last, conf, boolean_states,
                     threads>>

GetJson ==
    \E k \in Keys, d \in Defaults :
        /\ glast' = GetCall("get_json", k, d, get_json(conf, k, d))
        /\ UNCHANGED <<dir_cache, readers, nextId, last, conf, boolean_states,
                     threads>>

\* Config.add_bool_literals(true, false)
AddBoolLiterals ==
    \E tf \in BoolLiterals :
        /\ boolean_states' = add_bool_literals(boolean_states, tf[1], tf[2])
        /\ glast' = GetCall("add_bool_literals", tf[1], PyStr(tf[2]), Ok(PyNone, 0))
        /\ UNCHANGED <<dir_cache, readers, nextId, last, conf, threads>>

\* Config(x): another instance, on which no getter has been called yet
Construct ==
    \E c \in Confs :
        /\ conf' = c
        /\ glast' = GetCall("Config", <<>>, PyNone, Ok(PyNone, 0))
        /\ UNCHANGED <<dir_cache, readers, nextId, last, boolean_states, threads>>

NextGet ==
    Get \/ GetInt \/ GetFloat \/ GetBoolean \/ GetJson \/ AddBoolLiterals
      \/ Construct

SpecGet == InitGet /\ [][NextGet]_vars

----------------------------------------------------------------------------
(* Directories named by DirArgs, as absolute paths *)

Dir_d == <<"/","d",".","i","n","i">>
Dir_e == <<"/","e">>

\* the directory each argument of DirArgs names, the process running in /
DirectoryOf(d) ==
    IF d \in {<<"/","d",".","i","n","i">>, <<"/","d",".","i","n","i","/">>}
    THEN Dir_d ELSE Dir_e

----------------------------------------------------------------------------
(* C1: the registry holds at most one reader per absolute directory path,   *)
(* never drops or replaces an entry, and get_instance returns the reader    *)
(* registered for the directory its argument names: two calls naming the    *)
(* same directory return the identical reader.                              *)

C1_Step ==
    /\ \A p \in DOMAIN dir_cache :
          p \in DOMAIN dir_cache' /\ dir_cache'[p] = dir_cache[p]
    /\ \A p \in DOMAIN dir_cache' :
          /\ dir_cache'[p] \in 1..Len(readers')
          /\ readers'[dir_cache'[p]].config_dir = p
    /\ \A i, j \in 1..Len(readers') :
          readers'[i].config_dir = readers'[j].config_dir => i = j
    /\ \A i \in 1..Len(readers') :
          /\ readers'[i].config_dir \in DOMAIN dir_cache'
          /\ i <= Len(readers) => readers'[i].config_dir = readers[i].config_dir
    /\ (last'.op = "get_instance" /\ last'.exc = "") =>
          /\ DirectoryOf(last'.dir) \in DOMAIN dir_cache'
          /\ last'.reader = dir_cache'[DirectoryOf(last'.dir)]

C1_SingletonPerPath == [][C1_Step]_vars

\* get_instance('/d.ini/') returns the reader made first, which already holds
\* a cached config, while a second reader exists
C1_Witness ==
    /\ last.op = "get_instance"
    /\ last.dir = <<"/","d",".","i","n","i","/">>
    /\ Len(readers) = 2
    /\ last.reader = 1
    /\ readers[1].cache # Empty

----------------------------------------------------------------------------
(* What the claims say of a step: the call just made is in last', the state  *)
(* before it is unprimed                                                     *)

ReadStep == last = NoCall /\ last'.op = "read_config"
ReloadStep == last = NoCall /\ last'.op = "reload"

\* the reader and the name of the call just made, and the reader's cache
\* before and after it
CallCacheBefore == readers[last'.reader].cache
CallCacheAfter == readers'[last'.reader].cache
CallName == last'.config.s

----------------------------------------------------------------------------
(* C2: once read_config(N) has returned a mapping, every later               *)
(* read_config(N, ...) on that reader with no reload in between returns that *)
(* identical object, calls no parser and opens no file, whatever parser and  *)
(* default it is given: a returned mapping is the cached one, a cached entry *)
(* is changed by no step but a reload of its reader, and a read of a cached  *)
(* name returns the entry.                                                   *)

C2_Step ==
    /\ (ReadStep /\ last'.exc = "") =>
          /\ CallName \in DOMAIN CallCacheAfter
          /\ CallCacheAfter[CallName] = last'.ret
    /\ \A rid \in 1..Len(readers) : \A n \in DOMAIN readers[rid].cache :
          ~(ReloadStep /\ last'.reader = rid) =>
              /\ n \in DOMAIN readers'[rid].cache
              /\ readers'[rid].cache[n] = readers[rid].cache[n]
    /\ (ReadStep /\ CallName \in DOMAIN CallCacheBefore) =>
          /\ last'.exc = ""
          /\ last'.ret = CallCacheBefore[CallName]
          /\ last'.invoked = <<>>
          /\ last'.opened = 0
          /\ UNCHANGED <<dir_cache, readers, nextId>>

C2_CachedReadReturnsSameObject == [][C2_Step]_vars

\* a read naming the INI parser and default='raise', the file now missing,
\* returns the mapping the YAML parser made earlier, without a parse or an open
C2_Witness ==
    /\ last.op = "read_config"
    /\ last.parser = PFn("ini_parser")
    /\ last.default = DRaise
    /\ last.file = Missing
    /\ last.exc = ""
    /\ last.ret.val = YamlDoc
    /\ last.invoked = <<>>
    /\ last.opened = 0

----------------------------------------------------------------------------
(* C3: reload(N) removes N's entry, and the read_config(N) that follows      *)
(* calls the parser it resolves on the file again; what it returns is a new  *)
(* object holding the result of that parse, stored under N, never the object *)
(* cached before the reload.                                                 *)

\* the parser the call resolved could be called: the argument names no
\* unknown parser, and the file could be opened where the first line is read
C3_Resolves ==
    /\ last'.parser \in {PNone, PName(S_yaml), PFn("ini_parser")}
    /\ (last'.parser = PNone /\ CallName = <<"a">>) => last'.file.exists

C3_Step ==
    /\ (ReloadStep /\ last'.exc = "" /\ last'.config.k = "name") =>
          last'.config.s \notin DOMAIN CallCacheAfter
    /\ (ReadStep /\ CallName \notin DOMAIN CallCacheBefore) =>
          /\ C3_Resolves => Len(last'.invoked) = 1
          /\ last'.exc = "" =>
                /\ last'.ret.id > nextId
                /\ \A rid \in 1..Len(readers) : \A n \in DOMAIN readers[rid].cache :
                      readers[rid].cache[n].id # last'.ret.id
                /\ CallCacheAfter[CallName] = last'.ret
                /\ last'.file.exists =>
                      /\ Len(last'.invoked) = 1
                      /\ last'.opened >= 1
                      /\ last'.ret.val = CallParser(last'.invoked[1], last'.file).val

C3_ReloadThenReadParsesAgain == [][C3_Step]_vars

\* the second object made for a name: reader 1 read 'a' (object 1), reloaded
\* it, and read it again from a file the INI parser accepts
C3_Witness ==
    /\ last.op = "read_config"
    /\ last.config = NName(<<"a">>)
    /\ last.ret.id = 2
    /\ nextId = 2
    /\ last.invoked = <<"ini_parser">>
    /\ last.ret.val = PyDict(S_s :> PyDict(S_k :> PyStr(S_v)))
    /\ \A rid \in 1..Len(readers) : DOMAIN readers[rid].cache \subseteq {<<"a">>}
    /\ Len(readers) = 1

----------------------------------------------------------------------------
(* C4: reload changes only the targeted entries of its reader's cache:       *)
(* reload(N) removes exactly N's entry and keeps the others, reload() removes*)
(* them all, and the other readers and the registry stay as they are.        *)

C4_Step ==
    ReloadStep =>
        /\ dir_cache' = dir_cache
        /\ nextId' = nextId
        /\ Len(readers') = Len(readers)
        /\ \A rid \in 1..Len(readers) :
              /\ readers'[rid].config_dir = readers[rid].config_dir
              /\ readers'[rid].default_parser = readers[rid].default_parser
              /\ rid # last'.reader => readers'[rid].cache = readers[rid].cache
        /\ last'.config.k = "name" =>
              /\ DOMAIN CallCacheAfter = (DOMAIN CallCacheBefore) \ {last'.config.s}
              /\ \A n \in DOMAIN CallCacheAfter :
                    CallCacheAfter[n] = CallCacheBefore[n]
        /\ last'.config.k = "none" => CallCacheAfter = Empty

C4_ReloadFrame == [][C4_Step]_vars

\* reload('a') has removed 'a' from a reader that still holds 'a.json',
\* a second reader being registered
C4_Witness ==
    /\ last.op = "reload"
    /\ last.config = NName(<<"a">>)
    /\ last.exc = ""
    /\ Len(readers) = 2
    /\ DOMAIN readers[last.reader].cache = {<<"a",".","j","s","o","n">>}
    /\ nextId = 2

----------------------------------------------------------------------------
(* The registry and the file names, as the claims speak of them *)

\* the parser function a parser argument names: a registry identifier or one
\* of the three parser functions; "" for any other argument
NamedParser(parser) ==
    IF parser.k = "fn" /\ parser.f \in {"yaml_parser", "ini_parser", "json_parser"}
    THEN parser.f
    ELSE IF parser.k # "name" THEN ""
    ELSE IF parser.s = S_yaml THEN "yaml_parser"
    ELSE IF parser.s \in {S_ini, S_conf} THEN "ini_parser"
    ELSE IF parser.s = S_json THEN "json_parser"
    ELSE ""

\* the path read_config joins: the reader's directory, '/', the name
JoinedPath == readers[last'.reader].config_dir \o <<"/">> \o CallName

\* the call just made found no entry for its name
UncachedRead == ReadStep /\ CallName \notin DOMAIN CallCacheBefore

----------------------------------------------------------------------------
(* C5: for an uncached name, a read_config given an explicit parser (a       *)
(* registry name or a parser function) calls that parser on the file, and no *)
(* other, whatever the extension, the first line and the reader's default.   *)

C5_Step ==
    (UncachedRead /\ NamedParser(last'.parser) # "") =>
        /\ last'.invoked = <<NamedParser(last'.parser)>>
        /\ last'.opened = IF NamedParser(last'.parser) \in ParserFns THEN 1 ELSE 0
        /\ last'.file.exists =>
              /\ last'.exc = CallParser(NamedParser(last'.parser), last'.file).exc
              /\ last'.ret.val = CallParser(NamedParser(last'.parser), last'.file).val

C5_ExplicitParserWins == [][C5_Step]_vars

\* read_config('a.json', parser='yaml') on a file holding 'k: v': the YAML
\* parser was called and its mapping returned
C5_Witness ==
    /\ last.op = "read_config"
    /\ last.config = NName(<<"a",".","j","s","o","n">>)
    /\ last.parser = PName(S_yaml)
    /\ last.file = FileYamlPlain
    /\ last.invoked = <<"yaml_parser">>
    /\ last.exc = ""
    /\ last.ret.val = YamlDoc

----------------------------------------------------------------------------
(* C7: for an uncached name whose file cannot be opened, read_config with    *)
(* default='raise' raises ConfigurationError carrying the joined path,       *)
(* however the parser is resolved (an explicit registry name or parser       *)
(* function, the extension, the first-line scan, the default); and           *)
(* read_config raises ConfigurationError in no other case.                   *)

C7_Step ==
    ReadStep =>
        /\ ( /\ CallName \notin DOMAIN CallCacheBefore
             /\ ~last'.file.exists
             /\ last'.default = DRaise
             /\ (last'.parser = PNone \/ NamedParser(last'.parser) # "") )
           => /\ last'.exc = "ConfigurationError"
              /\ last'.arg = JoinedPath
              /\ UNCHANGED <<dir_cache, readers, nextId>>
        /\ last'.exc = "ConfigurationError" =>
              /\ CallName \notin DOMAIN CallCacheBefore
              /\ ~last'.file.exists
              /\ last'.default = DRaise

C7_ConfigurationErrorOnMissingFile == [][C7_Step]_vars

\* read_config('a', default='raise') in /d.ini, no file there: the error
\* carries '/d.ini/a'
C7_Witness ==
    /\ last.op = "read_config"
    /\ last.config = NName(<<"a">>)
    /\ last.parser = PNone
    /\ last.default = DRaise
    /\ last.file = Missing
    /\ last.exc = "ConfigurationError"
    /\ last.arg = <<"/","d",".","i","n","i","/","a">>

----------------------------------------------------------------------------
(* C8: for an uncached name whose file cannot be opened, read_config with a  *)
(* default d other than 'raise' returns a mapping equal to d and stores it   *)
(* under the name; every later read_config of the name, up to the next       *)
(* reload, returns that stored mapping, also with default='raise' and also   *)
(* when the file can be opened by then.                                      *)

C8_Step ==
    /\ ( /\ UncachedRead
         /\ ~last'.file.exists
         /\ last'.default.k = "map"
         /\ (last'.parser = PNone \/ NamedParser(last'.parser) # "") )
       => /\ last'.exc = ""
          /\ last'.ret.val = last'.default.m
          /\ CallName \in DOMAIN CallCacheAfter
          /\ CallCacheAfter[CallName] = last'.ret
          /\ \A n \in DOMAIN CallCacheBefore :
                n \in DOMAIN CallCacheAfter /\ CallCacheAfter[n] = CallCacheBefore[n]
    /\ (ReadStep /\ CallName \in DOMAIN CallCacheBefore) =>
          /\ last'.exc = ""
          /\ last'.ret = CallCacheBefore[CallName]
          /\ CallCacheAfter = CallCacheBefore
    /\ ~ReloadStep =>
          \A rid \in 1..Len(readers) : \A n \in DOMAIN readers[rid].cache :
              /\ n \in DOMAIN readers'[rid].cache
              /\ readers'[rid].cache[n] = readers[rid].cache[n]

C8_MissingFileDefaultIsCached == [][C8_Step]_vars

\* a read with default='raise', the file now holding 'k: v', returns the
\* mapping {'k': 1} stored when the file was missing
C8_Witness ==
    /\ last.op = "read_config"
    /\ last.default = DRaise
    /\ last.file = FileYamlPlain
    /\ last.exc = ""
    /\ last.ret.val = PyDict(S_k :> PyInt(1))
    /\ last.invoked = <<>>

----------------------------------------------------------------------------
(* C6: for an uncached name read with no explicit parser, the parser called  *)
(* is chosen by strict priority: the one the file extension names when the   *)
(* extension is exactly a registry identifier; otherwise one whose           *)
(* identifier occurs in the first line when that line begins with '#';       *)
(* otherwise the parser the reader was created with; otherwise, the reader   *)
(* having been created with none, the YAML parser.                           *)

\* the text after the last '.' of a file name, empty when it has no '.'
NameExtension(n) ==
    LET dots == {i \in 1..Len(n) : n[i] = "."}
    IN  IF dots = {} THEN <<>>
        ELSE SubSeq(n, (CHOOSE i \in dots : \A j \in dots : j <= i) + 1, Len(n))

RegistryIds == {S_yaml, S_ini, S_conf, S_json}

\* the parsers whose identifier occurs in a first line that begins with '#',
\* letter case ignored
CommentLineParsers(line) ==
    IF Len(line) > 0 /\ line[1] = "#"
    THEN {NamedParser(PName(k)) : k \in {x \in RegistryIds : contains(lower(line), x)}}
    ELSE {}

\* the parsers the priority rules allow for the call just made; the reader's
\* default is the parser function get_instance was given, if any
C6_Allowed ==
    LET own == readers[last'.reader].default_parser
    IN  IF NameExtension(CallName) \in RegistryIds
        THEN {NamedParser(PName(NameExtension(CallName)))}
        ELSE IF CommentLineParsers(last'.file.first_line) # {}
             THEN CommentLineParsers(last'.file.first_line)
        ELSE IF own \in ParserFns THEN {own}
        ELSE {"yaml_parser"}

C6_Step ==
    (UncachedRead /\ last'.parser = PNone /\ last'.file.exists) =>
        /\ Len(last'.invoked) = 1
        /\ last'.invoked[1] \in C6_Allowed
        /\ last'.exc = CallParser(last'.invoked[1], last'.file).exc
        /\ last'.ret.val = CallParser(last'.invoked[1], last'.file).val

C6_ParserPriority == [][C6_Step]_vars

----------------------------------------------------------------------------
(* C13: a reader's default parser is fixed when get_instance creates it - the*)
(* parser the creating call names, or the class's YAML default seen through  *)
(* the instance when it names none - and no later step changes it: a         *)
(* get_instance for a registered directory returns the registered reader,    *)
(* raises nothing and changes nothing whatever parser it is given, and a     *)
(* read that reaches rule 4 calls the reader's default.                      *)

GetInstanceStep == last = NoCall /\ last'.op = "get_instance"

C13_Step ==
    /\ \A rid \in 1..Len(readers) :
          readers'[rid].default_parser = readers[rid].default_parser
    /\ (GetInstanceStep /\ DirectoryOf(last'.dir) \in DOMAIN dir_cache) =>
          /\ last'.exc = ""
          /\ last'.reader = dir_cache[DirectoryOf(last'.dir)]
          /\ UNCHANGED <<dir_cache, readers, nextId>>
    /\ (GetInstanceStep /\ DirectoryOf(last'.dir) \notin DOMAIN dir_cache
          /\ last'.exc = "") =>
          readers'[last'.reader].default_parser =
              IF last'.parser = PNone THEN BoundYaml ELSE NamedParser(last'.parser)
    /\ ( /\ UncachedRead /\ last'.parser = PNone /\ last'.file.exists
         /\ NameExtension(CallName) \notin RegistryIds
         /\ CommentLineParsers(last'.file.first_line) = {} )
       => last'.invoked = <<readers[last'.reader].default_parser>>

C13_DefaultParserFixedAtCreation == [][C13_Step]_vars

\* get_instance('/d.ini/', parser='xml') returned the reader created first,
\* with parser='ini', which still has the INI parser as its default
C13_Witness ==
    /\ last.op = "get_instance"
    /\ last.dir = <<"/","d",".","i","n","i","/">>
    /\ last.parser = PName(S_xml)
    /\ last.exc = ""
    /\ Len(readers) = 2
    /\ last.reader = 1
    /\ readers[1].default_parser = "ini_parser"
    /\ readers[2].default_parser = BoundYaml

----------------------------------------------------------------------------
(* C16: reload(N) raises nothing whether or not N is cached, and N has no    *)
(* entry in the reader's cache afterwards.                                   *)

C16_Step ==
    (ReloadStep /\ last'.config.k = "name") =>
        /\ last'.exc = ""
        /\ last'.config.s \notin DOMAIN CallCacheAfter

C16_ReloadOfAnyName == [][C16_Step]_vars

----------------------------------------------------------------------------
(* C17: for an uncached name whose file exists and holds a JSON object,      *)
(* read_config with the JSON parser resolved (explicit argument, .json       *)
(* extension, or first-line comment) returns a mapping equal to the document *)
(* and stores it under the name.                                             *)

\* the file's text, one line long, is a JSON object
HoldsJsonObject(file) ==
    file.exists /\ JsonDecode(file.first_line).ok
      /\ JsonDecode(file.first_line).v.t = "dict"

\* the resolution policy gives the JSON parser for the call just made
JsonResolved ==
    \/ NamedParser(last'.parser) = "json_parser"
    \/ /\ last'.parser = PNone
       /\ \/ NameExtension(CallName) = S_json
          \/ /\ NameExtension(CallName) \notin RegistryIds
             /\ CommentLineParsers(last'.file.first_line) = {"json_parser"}

C17_Step ==
    (UncachedRead /\ HoldsJsonObject(last'.file) /\ JsonResolved) =>
        /\ last'.exc = ""
        /\ last'.ret.val = JsonDecode(last'.file.first_line).v
        /\ CallName \in DOMAIN CallCacheAfter
        /\ CallCacheAfter[CallName] = last'.ret

C17_JsonFileIsParsed == [][C17_Step]_vars

----------------------------------------------------------------------------
(* C18: for an uncached name whose file exists, when the parser called       *)
(* rejects the file's text, read_config raises that parser's error, whatever *)
(* the default is: no ConfigurationError, no default mapping, no cache entry.*)

\* the error of the format library behind parser fn on the file's text, ""
\* when it accepts the text
ParserError(fn, file) ==
    IF fn = "yaml_parser" /\ ~file.yaml.ok THEN "YAMLError"
    ELSE IF fn = "ini_parser" /\ ~file.ini.ok THEN "ConfigParser.Error"
    ELSE ""

C18_Step ==
    ( /\ UncachedRead /\ last'.file.exists /\ Len(last'.invoked) = 1
      /\ ParserError(last'.invoked[1], last'.file) # "" )
    => /\ last'.exc = ParserError(last'.invoked[1], last'.file)
       /\ last'.ret = NoObj
       /\ UNCHANGED <<dir_cache, readers, nextId>>

C18_ParserErrorPropagates == [][C18_Step]_vars

\* read_config('a', parser='yaml', default={'k': 1}) on a file holding INI
\* sections raised the YAML library's error
C18_Witness ==
    /\ last.op = "read_config"
    /\ last.config = NName(<<"a">>)
    /\ last.parser = PName(S_yaml)
    /\ last.default = DMap(S_k :> PyInt(1))
    /\ last.file = FileIniPlain
    /\ last.exc = "YAMLError"
    /\ last.invoked = <<"yaml_parser">>

----------------------------------------------------------------------------
(* C19: a read_config(N) that raises - ConfigurationError, KeyError for an   *)
(* explicit parser name outside the registry, or a parser's own error -      *)
(* leaves the registry and every cache as they were, N without an entry; an  *)
(* explicit name outside the registry does raise, whatever the file and the  *)
(* default are.                                                              *)

C19_Step ==
    /\ (ReadStep /\ last'.exc # "") =>
          /\ UNCHANGED <<dir_cache, readers, nextId>>
          /\ CallName \notin DOMAIN CallCacheAfter
          /\ last'.ret = NoObj
    /\ ( /\ UncachedRead /\ last'.parser.k = "name" /\ last'.parser.s # <<>>
         /\ last'.parser.s \notin RegistryIds )
       => /\ last'.exc = "KeyError"
          /\ last'.invoked = <<>>

C19_FailedReadCachesNothing == [][C19_Step]_vars

\* read_config('a', parser='xml', default={}) raised KeyError, the file
\* missing: the reader holds 'a.json' only, as before
C19_Witness ==
    /\ last.op = "read_config"
    /\ last.config = NName(<<"a">>)
    /\ last.parser = PName(S_xml)
    /\ last.default = DMap(Empty)
    /\ last.file = Missing
    /\ last.exc = "KeyError"
    /\ DOMAIN readers[last.reader].cache = {<<"a",".","j","s","o","n">>}

----------------------------------------------------------------------------
(* Dotted paths, as the claims speak of them *)

RECURSIVE Lookup(_, _)
\* descending one mapping level per segment: the value reached, or why none
\* is: a segment is absent ("absent"), or a segment is asked of a value that
\* is no mapping ("leaf")
Lookup(v, segs) ==
    IF Len(segs) = 0 THEN [how |-> "found", v |-> v]
    ELSE IF v.t # "dict" THEN [how |-> "leaf", v |-> PyNone]
    ELSE IF Head(segs) \notin DOMAIN v.m THEN [how |-> "absent", v |-> PyNone]
    ELSE Lookup(v.m[Head(segs)], Tail(segs))

\* the lookup of the getter call just made
Looked == Lookup(conf, split(glast.key, "."))

----------------------------------------------------------------------------
(* C9: Config.get(path, default) returns the value reached by descending one *)
(* mapping level per '.'-separated segment when every segment resolves, and  *)
(* returns default, raising nothing, both when a segment is absent and when  *)
(* a segment is asked of a value that is no mapping.                         *)

C9_GetReturnsValueOrDefault ==
    glast.op = "get" =>
        /\ glast.exc = ""
        /\ glast.val = IF Looked.how = "found" THEN Looked.v ELSE glast.d

----------------------------------------------------------------------------
(* C10: when the value get_int (get_float) resolves cannot be made an        *)
(* integer (a float) - it is a mapping, a sequence, or a string that writes  *)
(* no number - the call returns default unchanged if default is not 'raise'  *)
(* and raises ValueError naming the key if it is; nothing else escapes.      *)

\* v is a number, or a string that writes one of the wanted kind
Coercible(op, v) ==
    \/ v.t \in {"int", "float", "bool"}
    \/ v.t = "str" /\ op = "get_int" /\ IsIntLiteral(v.s)
    \/ v.t = "str" /\ op = "get_float" /\ IsFloatLiteral(v.s)

C10_UncoercibleGivesDefaultOrValueError ==
    ( /\ glast.op \in {"get_int", "get_float"}
      /\ Looked.how = "found"
      /\ ~Coercible(glast.op, Looked.v) )
    => IF glast.d = PyStr(S_raise)
       THEN glast.exc = "ValueError" /\ glast.arg = glast.key
       ELSE glast.exc = "" /\ glast.val = glast.d

----------------------------------------------------------------------------
(* The typed getters, as the claims speak of them *)

BooleanGetters == {"get_boolean", "get_bool"}

\* the value a getter works on: the one the path reaches, or the default when
\* a segment is absent
ResolvedValue == IF Looked.how = "found" THEN Looked.v ELSE glast.d

----------------------------------------------------------------------------
(* C11: get_boolean (and get_bool), for a path that resolves or has an       *)
(* absent segment: a boolean value is returned as it is; a string whose      *)
(* lower-cased form is a key of the literal table gives the table's truth    *)
(* value; any other value gives default unchanged when default is not        *)
(* 'raise', and ValueError naming the key when it is.                        *)

C11_GetBoolean ==
    (glast.op \in BooleanGetters /\ Looked.how \in {"found", "absent"}) =>
        IF ResolvedValue.t = "bool"
        THEN glast.exc = "" /\ glast.val = ResolvedValue
        ELSE IF /\ ResolvedValue.t = "str"
                /\ \E w \in DOMAIN boolean_states :
                      /\ Len(w) = Len(ResolvedValue.s)
                      /\ \A i \in 1..Len(w) : w[i] = LowerChar(ResolvedValue.s[i])
             THEN /\ glast.exc = ""
                  /\ \E w \in DOMAIN boolean_states :
                        /\ Len(w) = Len(ResolvedValue.s)
                        /\ \A i \in 1..Len(w) : w[i] = LowerChar(ResolvedValue.s[i])
                        /\ glast.val = PyBool(boolean_states[w])
        ELSE IF glast.d = PyStr(S_raise)
             THEN glast.exc = "ValueError" /\ glast.arg = glast.key
        ELSE glast.exc = "" /\ glast.val = glast.d

\* get_bool('w', 'raise') on {'w': 'maybe'} raised ValueError, the table
\* holding the registered literals 'oui' and 'non' by then
C11_Witness ==
    /\ glast.op = "get_bool"
    /\ conf = ConfFlags
    /\ glast.key = <<"w">>
    /\ glast.d = PyStr(S_raise)
    /\ glast.exc = "ValueError"
    /\ <<"o","u","i">> \in DOMAIN boolean_states

----------------------------------------------------------------------------
(* C12: when a segment of the path is asked of a value that is no mapping    *)
(* and default is not 'raise', get_int, get_float, get_boolean and get_json  *)
(* raise nothing and return default (get_json: the JSON-decoded default).    *)

C12_GettersRecoverFromNonMapping ==
    ( /\ glast.op \in {"get_int", "get_float", "get_json"} \cup BooleanGetters
      /\ Looked.how = "leaf"
      /\ glast.d # PyStr(S_raise)
      /\ glast.op = "get_json" => (glast.d.t = "str" /\ JsonDecode(glast.d.s).ok) )
    => /\ glast.exc = ""
       /\ glast.val = IF glast.op = "get_json" THEN JsonDecode(glast.d.s).v
                      ELSE glast.d

----------------------------------------------------------------------------
(* C14: right after add_bool_literals(t, f), get_boolean returns True for a  *)
(* leaf string equal to t when letter case is ignored, and False for one     *)
(* equal to f, on an instance that existed before the registration.          *)

C14_Step ==
    ( /\ glast.op = "add_bool_literals"
      /\ glast'.op \in BooleanGetters
      /\ Looked'.how = "found"
      /\ Looked'.v.t = "str" )
    => /\ lower(Looked'.v.s) = lower(glast.key) =>
             (glast'.exc = "" /\ glast'.val = PyBool(TRUE))
       /\ lower(Looked'.v.s) = lower(glast.d.s) =>
             (glast'.exc = "" /\ glast'.val = PyBool(FALSE))

C14_RegisteredLiteralsMatch == [][C14_Step]_vars

----------------------------------------------------------------------------
(* C15: get_json with a string default that is a JSON document: a leaf       *)
(* string holding a JSON list literal gives the decoded list; a leaf that    *)
(* cannot be parsed as JSON gives the decoded default, and nothing is raised.*)

\* v is a string that holds a JSON document
ParsesAsJson(v) == v.t = "str" /\ JsonDecode(v.s).ok

C15_GetJson ==
    ( /\ glast.op = "get_json"
      /\ Looked.how = "found"
      /\ ParsesAsJson(glast.d) )
    => /\ (ParsesAsJson(Looked.v) /\ JsonDecode(Looked.v.s).v.t = "list") =>
             (glast.exc = "" /\ glast.val = JsonDecode(Looked.v.s).v)
       /\ ~ParsesAsJson(Looked.v) =>
             (glast.exc = "" /\ glast.val = JsonDecode(glast.d.s).v)

----------------------------------------------------------------------------
(* C20: with get_instance called from two threads that may be switched       *)
(* between the membership test and the store, the calls that name one        *)
(* directory return one reader, and no two readers exist for one directory.  *)

C20_OneReaderPerPathUnderThreads ==
    /\ \A s, t \in Threads :
          ( /\ threads[s].ret # 0 /\ threads[t].ret # 0
            /\ threads[s].path = threads[t].path )
          => threads[s].ret = threads[t].ret
    /\ \A i, j \in 1..Len(readers) :
          readers[i].config_dir = readers[j].config_dir => i = j

====
